---- MODULE Spec2Model ----
(***************************************************************************)
(* The dental-clinic bot of src/app.py: the three SQLite tables (users,    *)
(* states, slots), the /webhook handler and the /trigger-reminders         *)
(* handler, as a state machine.                                            *)
(*                                                                         *)
(* The handlers are coroutines of one event loop: a handler runs without   *)
(* interruption up to an await.  /trigger-reminders awaits between reading *)
(* the pending reminders and marking them, so it is split there.  The slot *)
(* step of /webhook is split too, between its SELECT and its conditional   *)
(* UPDATE: several server processes may share the database file, and the   *)
(* claim of a slot is the one place the code guards against that.          *)
(***************************************************************************)
EXTENDS Integers, Sequences, FiniteSets, TLC

VARIABLES
    users,      \* table users: set of rows [chat_id, name, whatsapp, phone, lang]
    states,     \* table states: set of rows [chat_id, flow_type, step, data]
    slots,      \* table slots: set of rows [id, datetime_str, is_booked, booked_by, reminder_sent]
    seq,        \* sqlite_sequence of slots.id (AUTOINCREMENT)
    now,        \* the clock: days since the first day of the model, Dubai time
    req,        \* the requests in flight: each worker's position and local variables
    outbox,     \* the send_message calls of the latest step, in order
    scenario    \* who is talking to the bot, and whether days pass

vars == <<users, states, slots, seq, now, req, outbox, scenario>>

-----------------------------------------------------------------------------
(* Bounds of the model.                                                    *)

\* ensure_future_slots offers 7 days of 6 hours; the model stops its loops
\* after this many slots (day 1 at 10:00, day 1 at 12:00, ...).
NumSlots == 1
\* The clock stops after this many days.
MaxDay == 4

Chats == {1, 2}
Workers == {1, 2}

\* os.getenv("ADMIN_CHAT_ID"): a conversation of its own in this model.
ADMIN_CHAT_ID == 3
\* LIMIT 10 of get_available_slots.
AVAILABLE_LIMIT == 10
\* 19 * 1024 * 1024, the largest photo the handler analyses.
MAX_FILE_SIZE == 19922944

HOURS == <<10, 12, 14, 16, 18, 20>>
\* The days ahead that the loops reach
HorizonDays == ((NumSlots - 1) \div Len(HOURS)) + 1

\* SQL NULL / Python None in a text column, and in booked_by.
NULL == "<NULL>"
NoChat == 0

-----------------------------------------------------------------------------
(* Dates and times as the strings the code formats.  The model's days all  *)
(* fall in one month, so a day number d is the date 2026-01-(d+1).         *)

TwoDigit(n) == IF n < 10 THEN "0" \o ToString(n) ELSE ToString(n)

\* date.strftime('%Y-%m-%d')
strftime_date(d) == "2026-01-" \o TwoDigit(d + 1)

\* f"{date.strftime('%Y-%m-%d')} {hour:02d}:00"
dt_str(d, h) == strftime_date(d) \o " " \o TwoDigit(h) \o ":00"

\* s[5:] of slots_keyboard: the label without the year
label(d, h) == "01-" \o TwoDigit(d + 1) \o " " \o TwoDigit(h) \o ":00"

\* The time of day at which the model reads the clock.
NowTime == "11:00"

DayRange == 0..(MaxDay + HorizonDays)
HourRange == 0..23

\* Every string of the family above, parsed back into (day, time rank): a
\* date alone sorts before the same date followed by a time, as strings do.
Stamps ==
    [s \in {strftime_date(d) : d \in DayRange} |->
        <<CHOOSE d \in DayRange : strftime_date(d) = s, 0>>]
    @@
    [s \in {dt_str(d, h) : d \in DayRange, h \in HourRange} |->
        CHOOSE p \in DayRange \X (1..24) : dt_str(p[1], p[2] - 1) = s]

\* Comparison of two TEXT values (SQLite BINARY collation) of the family.
StrLess(a, b) ==
    \/ Stamps[a][1] < Stamps[b][1]
    \/ Stamps[a][1] = Stamps[b][1] /\ Stamps[a][2] < Stamps[b][2]

\* datetime_str LIKE 'prefix%' for a date prefix
LikePrefix(s, date) == Stamps[s][1] = Stamps[date][1]

\* The suffixes of a datetime_str among the texts of the model
\* (datetime_str LIKE '%text').
Suffixes ==
    [s \in {dt_str(d, h) : d \in DayRange, h \in HourRange} |->
        LET d == Stamps[s][1]
            h == Stamps[s][2] - 1
        IN  {"", "0", "00", ":00", TwoDigit(h) \o ":00", label(d, h), s}]

LikeSuffix(s, text) == text \in Suffixes[s]

-----------------------------------------------------------------------------
(* The database functions.                                                 *)

Truthy(v) == v # NULL /\ v # ""

\* The loop order of ensure_future_slots: day 1..7, then the hours of a day.
InsertOrder(today) ==
    [i \in 1..NumSlots |->
        dt_str(today + ((i - 1) \div Len(HOURS)) + 1, HOURS[((i - 1) % Len(HOURS)) + 1])]

\* A faulty variant of insert_slot: the column datetime_str without its
\* UNIQUE constraint, so that every INSERT succeeds.
insert_slot_no_unique(db, key) ==
    [slots |-> db.slots \cup {[id |-> db.seq + 1, datetime_str |-> key,
                               is_booked |-> 0, booked_by |-> NoChat,
                               reminder_sent |-> 0]},
     seq |-> db.seq + 1]

\* INSERT INTO slots (datetime_str) VALUES (?) under try/except: the UNIQUE
\* constraint makes the insert of an existing datetime_str fail, and the
\* failure is swallowed.
insert_slot(db, key) ==
    IF \E r \in db.slots : r.datetime_str = key
    THEN db
    ELSE [slots |-> db.slots \cup {[id |-> db.seq + 1, datetime_str |-> key,
                                    is_booked |-> 0, booked_by |-> NoChat,
                                    reminder_sent |-> 0]},
          seq |-> db.seq + 1]

RECURSIVE insert_all(_, _, _)
insert_all(db, keys, i) ==
    IF i > Len(keys) THEN db
    ELSE insert_all(insert_slot(db, keys[i]), keys, i + 1)

\* A faulty variant of delete_old: DELETE ... WHERE datetime_str < today.
delete_old_before_today(tbl, today) ==
    {r \in tbl : ~StrLess(r.datetime_str, strftime_date(today))}

\* DELETE FROM slots WHERE datetime_str < yesterday
delete_old(tbl, today) ==
    {r \in tbl : ~StrLess(r.datetime_str, strftime_date(today - 1))}

\* ensure_future_slots(): [slots, seq] after the call
ensure_future_slots(db, today) ==
    LET ins == insert_all(db, InsertOrder(today), 1)
    IN  [slots |-> delete_old(ins.slots, today), seq |-> ins.seq]

\* A faulty variant of upsert_user: the INSERT only, so that a row that
\* exists is left as it is.
upsert_user_insert_only(tbl, chat_id, name, whatsapp, phone, lang) ==
    IF \E u \in tbl : u.chat_id = chat_id
    THEN tbl
    ELSE tbl \cup {[chat_id |-> chat_id, name |-> name, whatsapp |-> whatsapp,
                    phone |-> phone, lang |-> IF Truthy(lang) THEN lang ELSE "fa"]}

\* upsert_user(chat_id, name, whatsapp, phone, lang): the users table after it
upsert_user(tbl, chat_id, name, whatsapp, phone, lang) ==
    IF \E u \in tbl : u.chat_id = chat_id
    THEN {IF u.chat_id # chat_id THEN u
          ELSE [chat_id  |-> chat_id,
                name     |-> IF Truthy(name) THEN name ELSE u.name,
                whatsapp |-> IF Truthy(whatsapp) THEN whatsapp ELSE u.whatsapp,
                phone    |-> IF Truthy(phone) THEN phone ELSE u.phone,
                lang     |-> IF Truthy(lang) THEN lang ELSE u.lang] : u \in tbl}
    ELSE tbl \cup {[chat_id |-> chat_id, name |-> name, whatsapp |-> whatsapp,
                    phone |-> phone, lang |-> IF Truthy(lang) THEN lang ELSE "fa"]}

\* get_user(chat_id): the row, as a set holding it, or the empty set
get_user(tbl, chat_id) == {u \in tbl : u.chat_id = chat_id}

\* get_all_users()
get_all_users(tbl) == {u.chat_id : u \in tbl}

\* now_str of get_available_slots
now_str(today) == strftime_date(today) \o " " \o NowTime

\* The rows a SELECT ... ORDER BY datetime_str ASC returns, as a sequence
RECURSIVE ascending(_)
ascending(S) ==
    IF S = {} THEN <<>>
    ELSE LET m == CHOOSE a \in S : \A b \in S : a = b \/ StrLess(a, b)
         IN  <<m>> \o ascending(S \ {m})

Take(s, n) == IF Len(s) <= n THEN s ELSE SubSeq(s, 1, n)

\* The SELECT of get_available_slots, on the table ensure_future_slots left
available_slots(tbl, today) ==
    Take(ascending({r.datetime_str : r \in
            {q \in tbl : q.is_booked = 0 /\ StrLess(now_str(today), q.datetime_str)}}),
         AVAILABLE_LIMIT)

\* A faulty variant of book_slot_atomic: the UPDATE without AND is_booked=0.
book_slot_unconditional(tbl, key, chat_id) ==
    LET hit == {r \in tbl : r.datetime_str = key}
    IN  [slots |-> {IF r \in hit
                    THEN [r EXCEPT !.is_booked = 1, !.booked_by = chat_id]
                    ELSE r : r \in tbl},
         ok |-> hit # {}]

\* A faulty variant of book_slot_atomic: the conditional UPDATE, but
\* return True in place of return cursor.rowcount > 0.
book_slot_rowcount_ignored(tbl, key, chat_id) ==
    LET hit == {r \in tbl : r.datetime_str = key /\ r.is_booked = 0}
    IN  [slots |-> {IF r \in hit
                    THEN [r EXCEPT !.is_booked = 1, !.booked_by = chat_id]
                    ELSE r : r \in tbl},
         ok |-> TRUE]

\* A faulty variant of book_slot_atomic: the conditional UPDATE, but the
\* result says whether a row with that datetime_str exists.
book_slot_reports_existence(tbl, key, chat_id) ==
    LET hit == {r \in tbl : r.datetime_str = key /\ r.is_booked = 0}
    IN  [slots |-> {IF r \in hit
                    THEN [r EXCEPT !.is_booked = 1, !.booked_by = chat_id]
                    ELSE r : r \in tbl},
         ok |-> \E r \in tbl : r.datetime_str = key]

\* A faulty variant of book_slot_atomic: the UPDATE sets is_booked alone.
book_slot_forgets_holder(tbl, key, chat_id) ==
    LET hit == {r \in tbl : r.datetime_str = key /\ r.is_booked = 0}
    IN  [slots |-> {IF r \in hit THEN [r EXCEPT !.is_booked = 1] ELSE r : r \in tbl},
         ok |-> hit # {}]

\* book_slot_atomic(dt_str, chat_id): one conditional UPDATE
book_slot_atomic(tbl, key, chat_id) ==
    LET hit == {r \in tbl : r.datetime_str = key /\ r.is_booked = 0}
    IN  [slots |-> {IF r \in hit
                    THEN [r EXCEPT !.is_booked = 1, !.booked_by = chat_id]
                    ELSE r : r \in tbl},
         ok |-> hit # {}]

\* get_pending_reminders(): (slot id, datetime_str, chat_id, name, lang)
get_pending_reminders(tbl, utbl, today) ==
    {[id |-> r.id, datetime_str |-> r.datetime_str, chat_id |-> u.chat_id,
      name |-> u.name, lang |-> u.lang] :
        <<r, u>> \in {p \in tbl \X utbl :
            /\ p[1].booked_by = p[2].chat_id
            /\ p[1].is_booked = 1
            /\ p[1].reminder_sent = 0
            /\ LikePrefix(p[1].datetime_str, strftime_date(today + 1))}}

\* mark_reminder_as_sent(slot_id)
mark_reminder_as_sent(tbl, slot_id) ==
    {IF r.id = slot_id THEN [r EXCEPT !.reminder_sent = 1] ELSE r : r \in tbl}

-----------------------------------------------------------------------------
(* Texts, the TRANS table and the keyboards.  The Persian, Arabic and       *)
(* Russian strings of the source are written here in Latin letters, the    *)
(* script's own letters in capitals where the source mixes both.           *)

\* TRANS[lang]["buttons"], flattened row by row (flat_btns of the handler)
BUTTONS ==
    [fa |-> <<"Khadamat", "Saat-e kari", "Rezerv-e nobat", "Adres-e markaz", "Soal ya ersal-e aks">>,
     en |-> <<"Services", "Working Hours", "Book Appointment", "Location", "Question or Photo">>,
     ar |-> <<"Al-khadamat", "Saat al-amal", "Hajz mawid", "Al-unwan", "Sual aw sura">>,
     ru |-> <<"Uslugi", "Chasy raboty", "Zapisatsya", "Adres", "Vopros ili Foto">>]

LANGS == DOMAIN BUTTONS

\* TRANS.get(lang, TRANS["en"]): the language whose table is used
trans_lang(lang) == IF lang \in LANGS THEN lang ELSE "en"

\* get_all_menu_buttons()
get_all_menu_buttons == UNION {{BUTTONS[l][i] : i \in DOMAIN BUTTONS[l]} : l \in LANGS}

\* The labels of language_keyboard()
LANGUAGE_LABELS == {"FARSI / Farsi", "English", "AL-ARABIYA / Arabic", "Russkiy / Russian"}

\* The texts users type in this model, each with the substrings the code
\* searches for that occur in it (raw) and in its lower-case form (lower).
\* TLC cannot index a string, so `needle in text` is this table.
OCCURS ==
    [t \in {"", "/start", "Ali", "Implant", "+1234567890", "10:00", "/broadcast hi"}
        |-> [raw |-> {}, lower |-> {}]]
    @@ [t \in get_all_menu_buttons |-> [raw |-> {}, lower |-> {}]]
    @@ [t \in {"cancel", "Cancel"} |-> [raw |-> {"cancel"} \cap {t}, lower |-> {"cancel"}]]
    @@ [t \in {"LAGHV"} |-> [raw |-> {"LAGHV"}, lower |-> {"LAGHV"}]]
    @@ [t \in {"English"} |-> [raw |-> {}, lower |-> {"english"}]]
    @@ [t \in {"FARSI / Farsi"} |-> [raw |-> {"FARSI"}, lower |-> {"FARSI"}]]
    @@ [t \in {"AL-ARABIYA / Arabic"} |-> [raw |-> {"AL-ARABIYA"}, lower |-> {"AL-ARABIYA", "arabic"}]]
    @@ [t \in {"Russkiy / Russian"} |-> [raw |-> {}, lower |-> {"russkiy", "russian"}]]

\* needle in text
InText(needle, text) == needle \in OCCURS[text].raw
\* needle in text.lower()
InLower(needle, text) == needle \in OCCURS[text].lower

\* text.startswith("/broadcast")
IsBroadcast(text) == text = "/broadcast hi"

\* The language choice of the registration step 'lang' (NULL: none)
sel_lang(text) ==
    IF InText("FARSI", text) THEN "fa"
    ELSE IF InLower("english", text) THEN "en"
    ELSE IF InLower("arabic", text) \/ InText("AL-ARABIYA", text) THEN "ar"
    ELSE IF InLower("russian", text) \/ InText("russkiy", text) THEN "ru"
    ELSE NULL

\* A faulty variant of is_cancel: "cancel" in text, without lower().
is_cancel_case_sensitive(text) == InText("cancel", text) \/ InText("LAGHV", text)

\* "cancel" in text.lower() or the Persian cancel word in text
is_cancel(text) == InLower("cancel", text) \/ InText("LAGHV", text)

\* A send_message(chat_id, text, reply_markup) call.  text is a TRANS key or
\* a literal, lang the table it came from, arg what was formatted into it;
\* ok is FALSE when the POST raised and send_message swallowed the error.
Msg(to, text, lang, arg, markup) ==
    [to |-> to, text |-> text, lang |-> lang, arg |-> arg, markup |-> markup, ok |-> TRUE]

NoMarkup == <<>>
language_keyboard == <<"language">>
contact_keyboard(lang) == <<"contact", trans_lang(lang)>>
main_keyboard(lang) == <<"main", trans_lang(lang)>>
remove_keyboard == <<"remove">>
\* slots_keyboard(slots): the slots it labels, in order, then Cancel
slots_keyboard(list) == <<"slots">> \o list \o <<"Cancel">>

-----------------------------------------------------------------------------
(* The conversations and what they send.                                   *)

\* json "{}" and the keys the flows add to it; NULL is an absent key.
EmptyData == [lang |-> NULL, name |-> NULL, whatsapp |-> NULL,
              service |-> NULL, doctor |-> NULL]

\* Conversation 2 is a patient who registered before the model starts.
Patient == [chat_id |-> 2, name |-> "Sara", whatsapp |-> "+1234567890",
            phone |-> "+971502222222", lang |-> "en"]
\* Conversation 1 once it has registered, as the registration flow leaves it.
Newcomer == [chat_id |-> 1, name |-> "Ali", whatsapp |-> "+1234567890",
             phone |-> "+971501111111", lang |-> "en"]

\* The model explores three situations, each from the state after startup:
\*   newcomer  conversation 1, not registered, sends anything it likes, and
\*             the admin broadcasts;
\*   rivals    conversations 1 and 2, both registered, book and cancel,
\*             served by two processes, while /trigger-reminders is called;
\*   calendar  conversation 2 books while the days pass.
Scenarios == {"newcomer", "rivals", "calendar"}
Talking ==
    CASE scenario = "newcomer" -> {Newcomer.chat_id}
      [] scenario = "rivals"   -> {Newcomer.chat_id, Patient.chat_id}
      [] scenario = "calendar" -> {Patient.chat_id}

\* DELETE FROM states WHERE chat_id=?
delete_state(tbl, chat_id) == {r \in tbl : r.chat_id # chat_id}

\* UPDATE states SET step=?, data=? WHERE chat_id=?
update_state(tbl, chat_id, step, data) ==
    {IF r.chat_id = chat_id THEN [r EXCEPT !.step = step, !.data = data] ELSE r : r \in tbl}

\* INSERT [OR REPLACE] INTO states (chat_id, flow_type, step, "{}")
put_state(tbl, chat_id, flow_type, step) ==
    delete_state(tbl, chat_id) \cup
        {[chat_id |-> chat_id, flow_type |-> flow_type, step |-> step, data |-> EmptyData]}

\* The step of the conversation's session in the table ("none": no session)
StepOf(c) ==
    IF \E r \in states : r.chat_id = c
    THEN (CHOOSE r \in states : r.chat_id = c).step
    ELSE "none"

\* What a user types.  A step that stores the text without looking into it
\* gets one such text; every step gets the texts the handler looks for
\* before it reaches the step's code.  "" is a message without text (a
\* sticker, say), sent where the step reads the text.
UserTexts(step) ==
    {"/start", "Book Appointment"} \cup
    CASE step = "none"     -> {"Ali"}
      [] step = "lang"     -> {"English", "Ali"}
      [] step = "name"     -> {"English", "Ali", ""}
      [] step = "whatsapp" -> {"+1234567890"}
      [] step = "phone"    -> {"+1234567890"}
      [] step = "service"  -> {"cancel", "Implant"}
      [] step = "doctor"   -> {"Cancel", "Ali"}
      [] step = "slot"     -> {"LAGHV", "10:00", "Ali", ""}

\* The phone number on the contact card that Telegram user o owns.
OwnPhone(o) == IF o = Newcomer.chat_id THEN Newcomer.phone ELSE Patient.phone

\* The messages conversation c may deliver.  The newcomer: a text; at the
\* contact step a shared contact, its own or somebody else's; a small or a
\* large photo.  Registered patients: the texts of the booking flow.
Inbound(c) ==
    IF scenario # "newcomer"
    THEN {[text |-> t, contact |-> {}, photo |-> {}] :
            t \in UserTexts(StepOf(c)) \ {"/start"}}
    ELSE {[text |-> t, contact |-> {}, photo |-> {}] : t \in UserTexts(StepOf(c))}
         \cup {[text |-> "", photo |-> {},
                contact |-> {[user_id |-> o, phone_number |-> OwnPhone(o)]}] :
                  o \in IF StepOf(c) = "phone" THEN Chats ELSE {}}
         \cup {[text |-> "", contact |-> {}, photo |-> {[file_size |-> z]}] :
                  z \in {1024, MAX_FILE_SIZE + 1}}

\* What call_gemini_api returns: the answer, or one of its two error texts
AI_ANSWER == "answer"
AI_HTTP_ERROR == "AI Error {status}: {response}"
AI_CONNECTION_ERROR == "AI Connection Error: {e}"
call_gemini_api == {AI_ANSWER, AI_HTTP_ERROR, AI_CONNECTION_ERROR}

-----------------------------------------------------------------------------
(* The state after startup.                                                *)

\* A worker's locals: the ones the code still reads after the point at
\* which the request is in flight.
Idle == [pc |-> "idle", chat_id |-> NoChat, lang |-> NULL, full_slot |-> NULL,
         reminders |-> {}]

Init ==
    LET db == ensure_future_slots([slots |-> {}, seq |-> 0], 1)
    IN  /\ scenario \in Scenarios
        /\ users = IF scenario = "rivals" THEN {Newcomer, Patient} ELSE {Patient}
        /\ states = {}
        /\ slots = db.slots
        /\ seq = db.seq
        /\ now = 1
        /\ req = [w \in Workers |-> Idle]
        /\ outbox = <<>>

\* Time passes.
Tick ==
    /\ scenario = "calendar"
    /\ now < MaxDay
    /\ now' = now + 1
    /\ outbox' = <<>>
    /\ UNCHANGED <<users, states, slots, seq, req, scenario>>

\* startup_event: init_db() creates the tables if absent and calls
\* ensure_future_slots().
Startup ==
    LET db == ensure_future_slots([slots |-> slots, seq |-> seq], now)
    IN  /\ slots' = db.slots
        /\ seq' = db.seq
        /\ outbox' = <<>>
        /\ UNCHANGED <<users, states, now, req, scenario>>

\* The workers that serve requests: one process, and two for the rivals.
Serving == IF scenario = "rivals" THEN Workers ELSE {1}

\* A request that stays in flight is taken by the lowest idle worker.
Free(w) ==
    /\ w \in Serving
    /\ req[w].pc = "idle"
    /\ \A v \in Workers : v < w => req[v].pc # "idle"

-----------------------------------------------------------------------------
(* webhook: what the handler reads of the message and of the tables, and   *)
(* the branch it takes.                                                    *)

\* GLOBAL INTERCEPTOR: a menu button of any language deletes the session
Intercepted(m) == m.text \in get_all_menu_buttons
StatesAfterInterceptor(c, m) ==
    IF Intercepted(m) THEN delete_state(states, c) ELSE states
\* current_state, after "Load State" and the interceptor
CurrentState(c, m) == IF Intercepted(m) THEN {} ELSE {r \in states : r.chat_id = c}

Flow(c, m) == (CHOOSE r \in CurrentState(c, m) : TRUE).flow_type
Step(c, m) == (CHOOSE r \in CurrentState(c, m) : TRUE).step
Data(c, m) == (CHOOSE r \in CurrentState(c, m) : TRUE).data

\* lang = user_row[3] if user_row else "en"
lang_of(user_row) == IF user_row # {} THEN (CHOOSE u \in user_row : TRUE).lang ELSE "en"
\* user_name = user_row[0] if user_row else None
name_of(user_row) == IF user_row # {} THEN (CHOOSE u \in user_row : TRUE).name ELSE NULL
Lang(c) == lang_of(get_user(users, c))
\* texts = TRANS.get(lang, TRANS["en"])
Texts(c) == trans_lang(Lang(c))
UserName(c) == name_of(get_user(users, c))

\* The branch of the handler that takes message m of conversation c: the
\* code's chain of tests, each of which ends in return {"ok": True}.
Branch(c, m) ==
    LET current_state == CurrentState(c, m)
        flow == IF current_state = {} THEN NULL ELSE Flow(c, m)
        step == IF current_state = {} THEN NULL ELSE Step(c, m)
    IN  IF m.photo # {} THEN "photo"
        ELSE IF step = "phone" THEN "contact"
        ELSE IF m.text = "/start" THEN "start"
        ELSE IF flow = "reg" /\ step \in {"lang", "name", "whatsapp"} THEN "reg_" \o step
        ELSE IF get_user(users, c) = {} THEN "not_registered"
        ELSE IF flow = "booking" /\ is_cancel(m.text) THEN "cancel"
        ELSE IF flow = "booking" /\ step \in {"service", "doctor", "slot"} THEN step
        ELSE IF \E i \in DOMAIN BUTTONS[Texts(c)] : BUTTONS[Texts(c)][i] = m.text
             THEN "menu"
        ELSE "ai"

-----------------------------------------------------------------------------
(* webhook: the branches.  Each runs from the parsing of the message to    *)
(* return {"ok": True} in one step, except the slot step.                  *)

\* ADMIN BROADCAST: the messages to every users row, in rowid order
RECURSIVE broadcast_to(_, _)
broadcast_to(ids, body) ==
    IF ids = {} THEN <<>>
    ELSE LET u == CHOOSE a \in ids : \A b \in ids : a <= b
         IN  <<Msg(u, "broadcast", "", body, NoMarkup)>> \o broadcast_to(ids \ {u}, body)

Broadcast ==
    /\ scenario = "newcomer"
    /\ IsBroadcast("/broadcast hi")
    /\ outbox' = broadcast_to(get_all_users(users), "hi")
                 \o <<Msg(ADMIN_CHAT_ID, "Sent to {n} users.", "",
                          ToString(Cardinality(get_all_users(users))), NoMarkup)>>
    /\ UNCHANGED <<users, states, slots, seq, now, req, scenario>>

\* IMAGE (TELEDENTISTRY)
Photo(c, m) ==
    /\ Branch(c, m) = "photo"
    /\ LET size == (CHOOSE f \in m.photo : TRUE).file_size
       IN  IF get_user(users, c) = {}
           THEN outbox' = <<Msg(c, "Please register first", "", "", NoMarkup)>>
           ELSE IF size > MAX_FILE_SIZE
           THEN outbox' = <<Msg(c, "file_too_large", Texts(c), "", NoMarkup)>>
           ELSE \E got_file \in BOOLEAN :
                \E res \in call_gemini_api \cup {"Image Error: {e}"} :
                    outbox' = <<Msg(c, "photo_analyzing", Texts(c), "", NoMarkup),
                                IF got_file
                                THEN Msg(c, "AI image", Texts(c), res, main_keyboard(Lang(c)))
                                ELSE Msg(c, "Failed to get file from Telegram.", "", "",
                                         NoMarkup)>>
    /\ states' = StatesAfterInterceptor(c, m)
    /\ UNCHANGED <<users, slots, seq, now, req, scenario>>

\* A faulty variant of ContactStep: without the test
\* contact.get("user_id") != chat_id.
ContactStep_any_owner(c, m) ==
    /\ Branch(c, m) = "contact"
    /\ LET data == Data(c, m)
       IN  IF m.contact # {}
           THEN LET contact == CHOOSE k \in m.contact : TRUE
                IN  /\ users' = upsert_user(users, c, data.name, data.whatsapp,
                                            contact.phone_number, data.lang)
                    /\ states' = delete_state(states, c)
                    /\ outbox' = <<Msg(c, "reg_complete", trans_lang(data.lang), "",
                                       main_keyboard(data.lang))>>
           ELSE /\ outbox' = <<Msg(c, "use_button_error", trans_lang(data.lang), "",
                                   contact_keyboard(data.lang))>>
                /\ UNCHANGED <<users, states>>
    /\ UNCHANGED <<slots, seq, now, req, scenario>>

\* CONTACT VERIFICATION: the session is at step 'phone'
ContactStep(c, m) ==
    /\ Branch(c, m) = "contact"
    /\ LET data == Data(c, m)
       IN  IF m.contact # {}
           THEN LET contact == CHOOSE k \in m.contact : TRUE
                IN  IF contact.user_id # c
                    THEN /\ outbox' = <<Msg(c, "Error: Not your contact.", "", "",
                                            contact_keyboard(Lang(c)))>>
                         /\ UNCHANGED <<users, states>>
                    ELSE /\ users' = upsert_user(users, c, data.name, data.whatsapp,
                                                 contact.phone_number, data.lang)
                         /\ states' = delete_state(states, c)
                         /\ outbox' = <<Msg(c, "reg_complete", trans_lang(data.lang), "",
                                            main_keyboard(data.lang))>>
           ELSE /\ outbox' = <<Msg(c, "use_button_error", trans_lang(data.lang), "",
                                   contact_keyboard(data.lang))>>
                /\ UNCHANGED <<users, states>>
    /\ UNCHANGED <<slots, seq, now, req, scenario>>

\* START
Start(c, m) ==
    /\ Branch(c, m) = "start"
    /\ states' = put_state(states, c, "reg", "lang")
    /\ outbox' = <<Msg(c, "Select Language", "", "", language_keyboard)>>
    /\ UNCHANGED <<users, slots, seq, now, req, scenario>>

\* REGISTRATION FLOW, step 'lang'
RegLang(c, m) ==
    /\ Branch(c, m) = "reg_lang"
    /\ LET sel == sel_lang(m.text)
       IN  IF sel = NULL
           THEN /\ outbox' = <<Msg(c, "Please select from buttons.", "", "",
                                   language_keyboard)>>
                /\ UNCHANGED <<users, states>>
           ELSE /\ users' = upsert_user(users, c, NULL, NULL, NULL, sel)
                /\ states' = update_state(states, c, "name", [EmptyData EXCEPT !.lang = sel])
                /\ outbox' = <<Msg(c, "name_prompt", sel, "", remove_keyboard)>>
    /\ UNCHANGED <<slots, seq, now, req, scenario>>

\* REGISTRATION FLOW, step 'name'
RegName(c, m) ==
    /\ Branch(c, m) = "reg_name"
    /\ LET data == Data(c, m)
       IN  IF m.text \in LANGUAGE_LABELS
           THEN /\ outbox' = <<Msg(c, "name_error", data.lang, "", NoMarkup)>>
                /\ UNCHANGED states
           ELSE /\ states' = update_state(states, c, "whatsapp",
                                          [data EXCEPT !.name = m.text])
                /\ outbox' = <<Msg(c, "whatsapp_prompt", data.lang, "", NoMarkup)>>
    /\ UNCHANGED <<users, slots, seq, now, req, scenario>>

\* REGISTRATION FLOW, step 'whatsapp'
RegWhatsapp(c, m) ==
    /\ Branch(c, m) = "reg_whatsapp"
    /\ LET data == Data(c, m)
       IN  /\ states' = update_state(states, c, "phone", [data EXCEPT !.whatsapp = m.text])
           /\ outbox' = <<Msg(c, "phone_prompt", data.lang, "", contact_keyboard(data.lang))>>
    /\ UNCHANGED <<users, slots, seq, now, req, scenario>>

\* if not user_row: "Type /start to register."
NotRegistered(c, m) ==
    /\ Branch(c, m) = "not_registered"
    /\ states' = StatesAfterInterceptor(c, m)
    /\ outbox' = <<Msg(c, "Type /start to register.", "", "", NoMarkup)>>
    /\ UNCHANGED <<users, slots, seq, now, req, scenario>>

\* BOOKING FLOW: a cancel word
BookingCancel(c, m) ==
    /\ Branch(c, m) = "cancel"
    /\ states' = delete_state(states, c)
    /\ outbox' = <<Msg(c, "cancelled", Texts(c), "", main_keyboard(Lang(c)))>>
    /\ UNCHANGED <<users, slots, seq, now, req, scenario>>

\* A faulty variant of BookingService: the UPDATE sets step 'slot', so that
\* the doctor is never asked for.
BookingService_skips_doctor(c, m) ==
    /\ Branch(c, m) = "service"
    /\ states' = update_state(states, c, "slot", [Data(c, m) EXCEPT !.service = m.text])
    /\ outbox' = <<Msg(c, "doctor_prompt", Texts(c), "", NoMarkup)>>
    /\ UNCHANGED <<users, slots, seq, now, req, scenario>>

\* BOOKING FLOW, step 'service'
BookingService(c, m) ==
    /\ Branch(c, m) = "service"
    /\ states' = update_state(states, c, "doctor", [Data(c, m) EXCEPT !.service = m.text])
    /\ outbox' = <<Msg(c, "doctor_prompt", Texts(c), "", NoMarkup)>>
    /\ UNCHANGED <<users, slots, seq, now, req, scenario>>

\* BOOKING FLOW, step 'doctor': get_available_slots() runs ensure_future_slots()
BookingDoctor(c, m) ==
    /\ Branch(c, m) = "doctor"
    /\ LET db == ensure_future_slots([slots |-> slots, seq |-> seq], now)
           list == available_slots(db.slots, now)
       IN  /\ slots' = db.slots
           /\ seq' = db.seq
           /\ IF list = <<>>
              THEN /\ states' = delete_state(states, c)
                   /\ outbox' = <<Msg(c, "no_slots", Texts(c), "", main_keyboard(Lang(c)))>>
              ELSE /\ states' = update_state(states, c, "slot",
                                             [Data(c, m) EXCEPT !.doctor = m.text])
                   /\ outbox' = <<Msg(c, "time_prompt", Texts(c), "", slots_keyboard(list))>>
    /\ UNCHANGED <<users, now, req, scenario>>

\* The rows of SELECT datetime_str FROM slots WHERE datetime_str LIKE '%text'
\* AND is_booked=0; fetchone() takes one of them, in no stated order.
found_slots(tbl, text) ==
    {r.datetime_str : r \in {q \in tbl : LikeSuffix(q.datetime_str, text) /\ q.is_booked = 0}}

\* BOOKING FLOW, step 'slot': from "Load State" to the lookup of the clicked slot
SlotLookup(w, c, m) ==
    /\ Free(w)
    /\ Branch(c, m) = "slot"
    /\ \E full_slot \in IF found_slots(slots, m.text) = {} THEN {NULL}
                        ELSE found_slots(slots, m.text) :
          req' = [req EXCEPT ![w] = [Idle EXCEPT !.pc = "found", !.chat_id = c,
                                                 !.lang = Lang(c),
                                                 !.full_slot = full_slot]]
    /\ outbox' = <<>>
    /\ UNCHANGED <<users, states, slots, seq, now, scenario>>

\* A faulty variant of SlotClaim: the admin is notified first, by a send
\* whose failure is not caught, so that a failed admin send ends the handler
\* before the session is deleted and the user is answered.
SlotClaim_admin_failure_fatal(w) ==
    /\ req[w].pc = "found"
    /\ LET c == req[w].chat_id
           full_slot == req[w].full_slot
           lang == req[w].lang
           claim == book_slot_atomic(slots, full_slot, c)
       IN  IF full_slot # NULL /\ claim.ok
           THEN /\ slots' = claim.slots
                /\ seq' = seq
                /\ \E admin_ok \in BOOLEAN :
                     IF admin_ok
                     THEN /\ states' = delete_state(states, c)
                          /\ outbox' = <<Msg(ADMIN_CHAT_ID, "Booking", "", full_slot, NoMarkup),
                                         Msg(c, "booking_done", trans_lang(lang), "",
                                             main_keyboard(lang))>>
                     ELSE /\ states' = states
                          /\ outbox' = <<[Msg(ADMIN_CHAT_ID, "Booking", "", full_slot, NoMarkup)
                                            EXCEPT !.ok = FALSE]>>
           ELSE LET db == ensure_future_slots([slots |-> slots, seq |-> seq], now)
                IN  /\ slots' = db.slots
                    /\ seq' = db.seq
                    /\ states' = states
                    /\ outbox' = <<Msg(c, "slot_taken", trans_lang(lang), "",
                                       slots_keyboard(available_slots(db.slots, now)))>>
    /\ req' = [req EXCEPT ![w] = Idle]
    /\ UNCHANGED <<users, now, scenario>>

\* BOOKING FLOW, step 'slot': the claim and what follows it
SlotClaim(w) ==
    /\ req[w].pc = "found"
    /\ LET c == req[w].chat_id
           full_slot == req[w].full_slot
           lang == req[w].lang
           claim == book_slot_atomic(slots, full_slot, c)
       IN  IF full_slot # NULL /\ claim.ok
           THEN /\ slots' = claim.slots
                /\ seq' = seq
                /\ states' = delete_state(states, c)
                /\ \E admin_ok \in BOOLEAN :
                     outbox' = <<Msg(c, "booking_done", trans_lang(lang), "",
                                     main_keyboard(lang)),
                                 [Msg(ADMIN_CHAT_ID, "Booking", "", full_slot, NoMarkup)
                                    EXCEPT !.ok = admin_ok]>>
           ELSE LET db == ensure_future_slots([slots |-> slots, seq |-> seq], now)
                IN  /\ slots' = db.slots
                    /\ seq' = db.seq
                    /\ states' = states
                    /\ outbox' = <<Msg(c, "slot_taken", trans_lang(lang), "",
                                       slots_keyboard(available_slots(db.slots, now)))>>
    /\ req' = [req EXCEPT ![w] = Idle]
    /\ UNCHANGED <<users, now, scenario>>

\* MAIN MENU: a button of the user's own language
MainMenu(c, m) ==
    /\ Branch(c, m) = "menu"
    /\ LET idx == (CHOOSE i \in DOMAIN BUTTONS[Texts(c)] : BUTTONS[Texts(c)][i] = m.text) - 1
       IN  IF idx = 2
           THEN /\ states' = put_state(StatesAfterInterceptor(c, m), c, "booking", "service")
                /\ outbox' = <<Msg(c, "booking_prompt", Texts(c), UserName(c), NoMarkup)>>
           ELSE /\ states' = StatesAfterInterceptor(c, m)
                /\ outbox' = <<Msg(c, CASE idx = 0 -> "services_reply"
                                        [] idx = 1 -> "hours_reply"
                                        [] idx = 3 -> "address_reply"
                                        [] idx = 4 -> "ask_prompt",
                                   Texts(c), UserName(c), main_keyboard(Lang(c)))>>
    /\ UNCHANGED <<users, slots, seq, now, req, scenario>>

\* AI CHAT: ask_gemini_text, and its result sent to the user as it is
AiChat(c, m) ==
    /\ Branch(c, m) = "ai"
    /\ states' = StatesAfterInterceptor(c, m)
    /\ \E res \in call_gemini_api :
          outbox' = <<Msg(c, "AI text", Texts(c), res, main_keyboard(Lang(c)))>>
    /\ UNCHANGED <<users, slots, seq, now, req, scenario>>

-----------------------------------------------------------------------------
(* /trigger-reminders                                                      *)

\* reminders = get_pending_reminders()
TriggerReminders(w) ==
    /\ scenario = "rivals"
    /\ Free(w)
    /\ req' = [req EXCEPT ![w] =
                  [Idle EXCEPT !.pc = "reminding",
                               !.reminders = get_pending_reminders(slots, users, now)]]
    /\ outbox' = <<>>
    /\ UNCHANGED <<users, states, slots, seq, now, scenario>>

\* One turn of the loop: send_message, which swallows a failure of the
\* transport, then mark_reminder_as_sent.  The rows come in no stated order.
RemindOne(w) ==
    /\ req[w].pc = "reminding"
    /\ \E r \in req[w].reminders : \E sent_ok \in BOOLEAN :
        /\ outbox' = <<[Msg(r.chat_id, "reminder_msg", trans_lang(r.lang),
                            r.datetime_str, NoMarkup) EXCEPT !.ok = sent_ok]>>
        /\ slots' = mark_reminder_as_sent(slots, r.id)
        /\ req' = [req EXCEPT ![w].reminders = @ \ {r}]
    /\ UNCHANGED <<users, states, seq, now, scenario>>

\* return {"status": "success", "sent": count}
RemindDone(w) ==
    /\ req[w].pc = "reminding"
    /\ req[w].reminders = {}
    /\ req' = [req EXCEPT ![w] = Idle]
    /\ outbox' = <<>>
    /\ UNCHANGED <<users, states, slots, seq, now, scenario>>

-----------------------------------------------------------------------------

\* POST /webhook with a message m of conversation c
Delivered(c, m) == c \in Talking /\ m \in Inbound(c)

\* webhook(request): the branch the handler takes on m
Webhook(c, m) ==
    LET branch == Branch(c, m)
    IN  CASE branch = "photo"          -> Photo(c, m)
          [] branch = "contact"        -> ContactStep(c, m)
          [] branch = "start"          -> Start(c, m)
          [] branch = "reg_lang"       -> RegLang(c, m)
          [] branch = "reg_name"       -> RegName(c, m)
          [] branch = "reg_whatsapp"   -> RegWhatsapp(c, m)
          [] branch = "not_registered" -> NotRegistered(c, m)
          [] branch = "cancel"         -> BookingCancel(c, m)
          [] branch = "service"        -> BookingService(c, m)
          [] branch = "doctor"         -> BookingDoctor(c, m)
          [] branch = "slot"           -> \E w \in Workers : SlotLookup(w, c, m)
          [] branch = "menu"           -> MainMenu(c, m)
          [] branch = "ai"             -> AiChat(c, m)

Next ==
    \/ Tick
    \/ Startup
    \/ Broadcast
    \/ \E c \in Chats : \E m \in Inbound(c) : Delivered(c, m) /\ Photo(c, m)
    \/ \E c \in Chats : \E m \in Inbound(c) : Delivered(c, m) /\ ContactStep(c, m)
    \/ \E c \in Chats : \E m \in Inbound(c) : Delivered(c, m) /\ Start(c, m)
    \/ \E c \in Chats : \E m \in Inbound(c) : Delivered(c, m) /\ RegLang(c, m)
    \/ \E c \in Chats : \E m \in Inbound(c) : Delivered(c, m) /\ RegName(c, m)
    \/ \E c \in Chats : \E m \in Inbound(c) : Delivered(c, m) /\ RegWhatsapp(c, m)
    \/ \E c \in Chats : \E m \in Inbound(c) : Delivered(c, m) /\ NotRegistered(c, m)
    \/ \E c \in Chats : \E m \in Inbound(c) : Delivered(c, m) /\ BookingCancel(c, m)
    \/ \E c \in Chats : \E m \in Inbound(c) : Delivered(c, m) /\ BookingService(c, m)
    \/ \E c \in Chats : \E m \in Inbound(c) : Delivered(c, m) /\ BookingDoctor(c, m)
    \/ \E c \in Chats : \E m \in Inbound(c) : \E w \in Workers :
            Delivered(c, m) /\ SlotLookup(w, c, m)
    \/ \E c \in Chats : \E m \in Inbound(c) : Delivered(c, m) /\ MainMenu(c, m)
    \/ \E c \in Chats : \E m \in Inbound(c) : Delivered(c, m) /\ AiChat(c, m)
    \/ \E w \in Workers :
        \/ SlotClaim(w)
        \/ TriggerReminders(w)
        \/ RemindOne(w)
        \/ RemindDone(w)

Spec == Init /\ [][Next]_vars

\* The runs in which the transport never fails: every POST of send_message
\* returns without raising.
Reliable == \A i \in DOMAIN outbox' : outbox'[i].ok
SpecReliable == Init /\ [][Next /\ Reliable]_vars

-----------------------------------------------------------------------------
(* The properties.                                                         *)

\* users.phone of conversation c (NULL: no row, or no phone)
phone_of(tbl, c) ==
    IF \E u \in tbl : u.chat_id = c
    THEN (CHOOSE u \in tbl : u.chat_id = c).phone
    ELSE NULL

\* The conversation completed its registration: it shared its contact.
Registered(c) == Truthy(phone_of(users, c))

\* The step of worker w is the claim of the slot its request looked up.
Claims(w) == req[w].pc = "found" /\ req'[w].pc = "idle"

Confirms(box) == \E i \in DOMAIN box : box[i].text = "booking_done"

\* C1: no double-booking.  In every step, a booked slot keeps is_booked = 1
\* and its booked_by, and a claim that ends in a booking confirmation was
\* made on a slot that was not booked: of the attempts to claim one slot at
\* most one succeeds, and no later claimant overwrites booked_by.
C1_NoDoubleBooking ==
    [][/\ \A r \in slots : r.is_booked = 1 =>
            \A q \in slots' : q.datetime_str = r.datetime_str =>
                q.is_booked = 1 /\ q.booked_by = r.booked_by
       /\ \A w \in Workers : (Claims(w) /\ Confirms(outbox')) =>
            /\ \E r \in slots : r.datetime_str = req[w].full_slot /\ r.is_booked = 0
            /\ \E q \in slots' : /\ q.datetime_str = req[w].full_slot
                                 /\ q.is_booked = 1
                                 /\ q.booked_by = req[w].chat_id
      ]_vars

\* C1, the case: a request is about to claim a slot that another
\* conversation's request, which looked it up at the same time, has booked.
C1_LateClaimant ==
    \E w \in Workers : \E r \in slots :
        /\ req[w].pc = "found"
        /\ r.datetime_str = req[w].full_slot
        /\ r.is_booked = 1
        /\ r.booked_by # req[w].chat_id

\* C2: two conversations at the slot step pick the same slot.  The claim
\* made while the slot is free is answered with the booking confirmation,
\* deletes the claimant's session and books the slot for it; the claim made
\* once the slot is taken is answered with slot_taken and the availability
\* list read again after the claim failed (the taken slot not in it), leaves
\* the sessions and the slot's row as they are and confirms nothing.
C2_OneConfirmationOneRetry ==
    [][\A w \in Workers : (Claims(w) /\ req[w].full_slot # NULL) =>
        LET c == req[w].chat_id
            key == req[w].full_slot
            again == available_slots(slots', now)
        IN  IF \E r \in slots : r.datetime_str = key /\ r.is_booked = 0
            THEN /\ Len(outbox') = 2
                 /\ outbox'[1].to = c
                 /\ outbox'[1].text = "booking_done"
                 /\ outbox'[2].to = ADMIN_CHAT_ID
                 /\ states' = delete_state(states, c)
                 /\ \E q \in slots' : /\ q.datetime_str = key
                                      /\ q.is_booked = 1
                                      /\ q.booked_by = c
            ELSE /\ outbox' = <<Msg(c, "slot_taken", trans_lang(req[w].lang), "",
                                    slots_keyboard(again))>>
                 /\ \A i \in DOMAIN again : again[i] # key
                 /\ states' = states
                 /\ \A q \in slots' : q.datetime_str = key => q \in slots
      ]_vars

\* C2, the case: the requests of two conversations have both looked up the
\* same free slot, and neither has claimed it yet.
C2_BothPickedTheSlot ==
    \E w \in Workers : \E v \in Workers :
        /\ req[w].pc = "found" /\ req[v].pc = "found"
        /\ req[w].chat_id # req[v].chat_id
        /\ req[w].full_slot # NULL
        /\ req[w].full_slot = req[v].full_slot
        /\ StepOf(req[w].chat_id) = "slot" /\ StepOf(req[v].chat_id) = "slot"
        /\ \E r \in slots : r.datetime_str = req[w].full_slot /\ r.is_booked = 0

\* What the bot says to ask for, or to continue, a registration.
REGISTRATION_PROMPTS ==
    {"Please register first", "Type /start to register.", "Select Language",
     "Please select from buttons.", "name_prompt", "name_error", "whatsapp_prompt",
     "phone_prompt", "use_button_error", "Error: Not your contact."}

\* C3: the registration gate.  A conversation that has not completed its
\* registration has no booking session, holds no slot, and the handler's
\* answers to it are prompts of the registration only (the admin's broadcast
\* is no answer).
C3_RegistrationGate ==
    \A c \in Chats : ~Registered(c) =>
        /\ ~\E r \in states : r.chat_id = c /\ r.flow_type = "booking"
        /\ ~\E r \in slots : r.is_booked = 1 /\ r.booked_by = c
        /\ \A i \in DOMAIN outbox :
              (outbox[i].to = c /\ outbox[i].text # "broadcast") =>
                  outbox[i].text \in REGISTRATION_PROMPTS

\* C4: users.phone changes only in a step taken with the session at step
\* 'phone', which completes the registration, and the value written is the
\* number of the contact card the conversation itself owns: never a typed
\* text, never the number of somebody else's card.
C4_ContactGateIntegrity ==
    [][\A c \in Chats : phone_of(users', c) # phone_of(users, c) =>
            /\ StepOf(c) = "phone"
            /\ phone_of(users', c) = OwnPhone(c)
            /\ StepOf(c)' = "none"
            /\ Len(outbox') = 1
            /\ outbox'[1].to = c
            /\ outbox'[1].text = "reg_complete"
      ]_vars

\* C4, the case: the newcomer shared its own contact at step 'phone' and
\* its row holds the number of that contact.
C4_PhoneVerified ==
    /\ scenario = "newcomer"
    /\ phone_of(users, Newcomer.chat_id) = OwnPhone(Newcomer.chat_id)
    /\ StepOf(Newcomer.chat_id) = "none"
    /\ outbox # <<>>
    /\ outbox[1].to = Newcomer.chat_id
    /\ outbox[1].text = "reg_complete"

\* C5: step 'phone' is a hard gate.  A step taken while conversation c is
\* at step 'phone' either completes the registration with c's own contact,
\* or leaves c's session as it is (step and data) and says nothing to c but
\* the corrective prompt (the admin's broadcast is no answer).
C5_ContactGateHolds ==
    [][\A c \in Chats : \A r \in states : (r.chat_id = c /\ r.step = "phone") =>
            \/ /\ r \in states'
               /\ \A i \in DOMAIN outbox' : outbox'[i].to = c =>
                     outbox'[i].text \in
                        {"use_button_error", "Error: Not your contact.", "broadcast"}
            \/ /\ StepOf(c)' = "none"
               /\ phone_of(users', c) = OwnPhone(c)
               /\ Len(outbox') = 1
               /\ outbox'[1].to = c
               /\ outbox'[1].text = "reg_complete"
      ]_vars

\* C6: a users row exists only once the registration is complete, and is
\* never deleted: after every step each row has a name and a phone, and
\* each row of before the step is still there.
C6_ProfileOnlyWhenComplete ==
    [][/\ \A u \in users' : Truthy(u.name) /\ Truthy(u.phone)
       /\ \A u \in users : \E v \in users' : v.chat_id = u.chat_id
      ]_vars

\* C7: ensure_future_slots is idempotent.  On the tables and the clock of
\* every reachable state, a second call right after a first one changes
\* nothing (neither the rows nor the id counter), and the table after the
\* first call holds no datetime_str twice.
C7_EnsureIdempotent ==
    LET once == ensure_future_slots([slots |-> slots, seq |-> seq], now)
        twice == ensure_future_slots(once, now)
    IN  /\ twice = once
        /\ \A r \in once.slots : \A q \in once.slots :
              r.datetime_str = q.datetime_str => r = q

\* C7, the case: the days have passed since the table was last filled, so
\* that the first call both inserts a slot and prunes an old one.
C7_CallInsertsAndPrunes ==
    LET once == ensure_future_slots([slots |-> slots, seq |-> seq], now)
    IN  /\ \E r \in slots : r \notin once.slots
        /\ \E r \in once.slots : r \notin slots
        /\ once.seq > seq

\* C8: a reminder is sent once.  With a transport that never fails, a
\* reminder is sent only for a booked slot whose reminder_sent is still 0,
\* that is, one for which no reminder was sent before, whether the scans
\* run one after the other or overlap.
C8_ReminderOnce ==
    [][\A i \in DOMAIN outbox' : outbox'[i].text = "reminder_msg" =>
            \E r \in slots : /\ r.datetime_str = outbox'[i].arg
                             /\ r.is_booked = 1
                             /\ r.reminder_sent = 0
      ]_vars

\* C9: reminder_sent goes from 0 to 1 only in a step in which the reminder
\* of that slot was handed to the transport without an error.
C9_MarkedOnlyWhenSent ==
    [][\A r \in slots : \A q \in slots' :
            (q.id = r.id /\ r.reminder_sent = 0 /\ q.reminder_sent = 1) =>
                \E i \in DOMAIN outbox' : /\ outbox'[i].text = "reminder_msg"
                                          /\ outbox'[i].to = r.booked_by
                                          /\ outbox'[i].arg = r.datetime_str
                                          /\ outbox'[i].ok
      ]_vars

\* The cancel keywords, in the spellings the conversations use.
CANCEL_WORDS == {"cancel", "Cancel", "LAGHV"}

\* C10: cancelling.  When the handler takes a message whose text is a
\* cancel keyword, from a conversation whose session is in the booking flow
\* at step service, doctor or slot, the step deletes the session, answers
\* with the cancellation confirmation alone, and leaves the slots alone.
C10_CancelReturnsToIdle ==
    [][\A r \in states :
            (r.flow_type = "booking" /\ r.step \in {"service", "doctor", "slot"}) =>
                \A t \in CANCEL_WORDS :
                    LET c == r.chat_id
                        m == [text |-> t, contact |-> {}, photo |-> {}]
                    IN  (Delivered(c, m) /\ Webhook(c, m)) =>
                            /\ StepOf(c)' = "none"
                            /\ outbox' = <<Msg(c, "cancelled", Texts(c), "",
                                               main_keyboard(Lang(c)))>>
                            /\ slots' = slots
                            /\ seq' = seq
      ]_vars

\* C10, the case: a conversation has cancelled its booking: the confirmation
\* is the latest message and its session is gone, while a slot is free.
C10_Cancelled ==
    /\ outbox # <<>>
    /\ outbox[1].text = "cancelled"
    /\ StepOf(outbox[1].to) = "none"
    /\ \E r \in slots : r.is_booked = 0

\* A text message that is neither a command (/start, a menu button of any
\* language) nor a cancel keyword nor empty.
FreeText(m) ==
    /\ m.photo = {} /\ m.contact = {}
    /\ m.text \notin {"", "/start"} \cup get_all_menu_buttons
    /\ ~is_cancel(m.text)

\* The booking session of conversation c at the given step, if it has one.
BookingAt(c, step) ==
    {r \in states : r.chat_id = c /\ r.flow_type = "booking" /\ r.step = step}

\* The Book button of the conversation's own language (idx == 2).
IsBook(c, m) == m.photo = {} /\ m.contact = {} /\ m.text = BUTTONS[Texts(c)][3]

\* The order of the booking steps: a session is in the booking flow at a
\* step it was not at before only if that step is 'service' (the flow
\* starts, or starts again), or the step that follows the one it was at.
BookingOrder ==
    \A q \in states' : (q.flow_type = "booking" /\ q \notin states) =>
        \/ q.step = "service" /\ q.data = EmptyData
        \/ q.step = "doctor" /\ BookingAt(q.chat_id, "service") # {}
        \/ q.step = "slot" /\ BookingAt(q.chat_id, "doctor") # {}
        \/ \E r \in states : r.chat_id = q.chat_id /\ r.flow_type = "booking"
                             /\ r.step = q.step

\* A slot becomes booked only in the claim of a request, and a request
\* reaches its claim only from a session at step 'slot'.
ClaimedFromSlotStep ==
    /\ (\E r \in slots : \E q \in slots' :
            q.datetime_str = r.datetime_str /\ r.is_booked = 0 /\ q.is_booked = 1)
        => \E w \in Workers : Claims(w)
    /\ \A w \in Workers : (req[w].pc # "found" /\ req'[w].pc = "found") =>
            BookingAt(req'[w].chat_id, "slot") # {}

\* The messages C11 speaks of: the Book button of a registered conversation
\* without a session, and a free text at step service or doctor.
BookingInput(c, m) ==
    \/ IsBook(c, m) /\ get_user(users, c) # {} /\ StepOf(c) = "none"
    \/ FreeText(m) /\ (BookingAt(c, "service") # {} \/ BookingAt(c, "doctor") # {})

\* What the Book button and the service step do, as C11 states them.
BookAndService(c, m) ==
    /\ (IsBook(c, m) /\ get_user(users, c) # {} /\ StepOf(c) = "none") =>
            /\ states' = states \cup {[chat_id |-> c, flow_type |-> "booking",
                                       step |-> "service", data |-> EmptyData]}
            /\ Len(outbox') = 1 /\ outbox'[1].text = "booking_prompt"
    /\ \A r \in BookingAt(c, "service") : FreeText(m) =>
            /\ states' = (states \ {r}) \cup
                            {[r EXCEPT !.step = "doctor",
                                       !.data = [r.data EXCEPT !.service = m.text]]}
            /\ Len(outbox') = 1 /\ outbox'[1].text = "doctor_prompt"

\* The doctor step's transition to the slot step, with the slots listed.
DoctorToSlot(c, m, r) ==
    /\ states' = (states \ {r}) \cup
                    {[r EXCEPT !.step = "slot",
                               !.data = [r.data EXCEPT !.doctor = m.text]]}
    /\ outbox' = <<Msg(c, "time_prompt", Texts(c), "",
                       slots_keyboard(available_slots(slots', now)))>>
    /\ available_slots(slots', now) # <<>>

\* C11 as stated: the Book button of a registered conversation without a
\* session opens a booking session at step service; a free text at step
\* service is stored as the service and the step becomes doctor; EVERY free
\* text at step doctor is stored as the doctor and the step becomes slot,
\* with the available slots listed; the steps come in order; a slot is
\* claimed only from step slot.
C11_BookingProgression ==
    [][/\ \A c \in Chats : \A m \in Inbound(c) :
            (BookingInput(c, m) /\ Delivered(c, m) /\ Webhook(c, m)) =>
                /\ BookAndService(c, m)
                /\ \A r \in BookingAt(c, "doctor") : FreeText(m) => DoctorToSlot(c, m, r)
       /\ BookingOrder
       /\ ClaimedFromSlotStep
      ]_vars

\* C11, amended: as above, but at step doctor the free text is stored and
\* the step becomes slot only if the availability list is not empty; if no
\* slot is available the session is deleted and the answer is no_slots.
C11_BookingProgressionUnlessNoSlots ==
    [][/\ \A c \in Chats : \A m \in Inbound(c) :
            (BookingInput(c, m) /\ Delivered(c, m) /\ Webhook(c, m)) =>
                /\ BookAndService(c, m)
                /\ \A r \in BookingAt(c, "doctor") : FreeText(m) =>
                      IF available_slots(
                            ensure_future_slots([slots |-> slots, seq |-> seq], now).slots,
                            now) # <<>>
                      THEN DoctorToSlot(c, m, r)
                      ELSE /\ states' = states \ {r}
                           /\ outbox' = <<Msg(c, "no_slots", Texts(c), "",
                                              main_keyboard(Lang(c)))>>
       /\ BookingOrder
       /\ ClaimedFromSlotStep
      ]_vars

\* C11, the case: a conversation went through the steps: its session is at
\* step slot with the service and the doctor it typed, and the latest
\* message lists the available slots.
C11_SlotsListed ==
    /\ outbox # <<>>
    /\ outbox[1].text = "time_prompt"
    /\ Len(outbox[1].markup) > 2
    /\ \E r \in BookingAt(outbox[1].to, "slot") :
          r.data.service = "Implant" /\ r.data.doctor = "Ali"

\* get_available_slots(): what the availability query returns in this state
get_available_slots ==
    available_slots(ensure_future_slots([slots |-> slots, seq |-> seq], now).slots, now)

\* The step of worker w is the lookup of the slot a reply names.
LooksUp(w) == req[w].pc = "idle" /\ req'[w].pc = "found"

\* C12: the slot reply is resolved against the available set only.  The
\* slot a reply is resolved to is, when the reply is handled, one of the
\* slots the availability query returns (not booked, later than now, among
\* the first ten in ascending order), and a slot turns booked only as the
\* slot a reply was resolved to.
C12_ResolvedAgainstAvailable ==
    [][/\ \A w \in Workers : (LooksUp(w) /\ req'[w].full_slot # NULL) =>
            \E i \in DOMAIN get_available_slots :
                get_available_slots[i] = req'[w].full_slot
       /\ \A r \in slots : \A q \in slots' :
            (q.datetime_str = r.datetime_str /\ r.is_booked = 0 /\ q.is_booked = 1) =>
                \E w \in Workers : Claims(w) /\ req[w].full_slot = r.datetime_str
      ]_vars

\* The available slots that the reply text names (datetime_str LIKE '%text')
Named(text) ==
    {i \in DOMAIN get_available_slots : LikeSuffix(get_available_slots[i], text)}

\* C13: an invalid slot reply claims nothing.  When the handler takes, at
\* step slot, a reply that is empty or that does not name exactly one of
\* the available slots, the lookup resolves it to no slot; and a request
\* whose reply was resolved to no slot books nothing and leaves the session
\* at step slot.
C13_InvalidReplyClaimsNothing ==
    [][/\ \A c \in Chats : \A m \in Inbound(c) : \A w \in Workers :
            (/\ m.text = "" \/ Cardinality(Named(m.text)) # 1
             /\ Delivered(c, m)
             /\ SlotLookup(w, c, m)) => req'[w].full_slot = NULL
       /\ \A w \in Workers : (Claims(w) /\ req[w].full_slot = NULL) =>
            /\ states' = states
            /\ \A q \in slots' : q.is_booked = 1 => q \in slots
      ]_vars

\* C14: a failure of the AI call fails closed.  No message handed to
\* send_message carries an error text of call_gemini_api: an answer of the
\* AI chat or of the image analysis carries the text the AI generated.
C14_AiFailsClosed ==
    \A i \in DOMAIN outbox :
        /\ outbox[i].arg \notin {AI_HTTP_ERROR, AI_CONNECTION_ERROR}
        /\ outbox[i].text \in {"AI text", "AI image"} => outbox[i].arg = AI_ANSWER

\* A message with a chat id and nothing else the handler reads: no text, no
\* contact, no photo.
EmptyPayload == [text |-> "", contact |-> {}, photo |-> {}]

\* C15: an empty payload is a no-op.  When the handler takes a message
\* without text, contact and photo, whatever the step of the conversation's
\* session, it sends nothing, changes none of the tables and leaves no
\* request in flight.
C15_EmptyPayloadIsNoOp ==
    [][\A c \in Chats :
            (Delivered(c, EmptyPayload) /\ Webhook(c, EmptyPayload)) =>
                /\ outbox' = <<>>
                /\ UNCHANGED <<users, states, slots, seq, req>>
      ]_vars

\* The registration session of conversation c at the given step, if any.
RegAt(c, step) ==
    {r \in states : r.chat_id = c /\ r.flow_type = "reg" /\ r.step = step}

\* C16: the language step.  When the handler takes a message from a
\* conversation whose session is at registration step lang: a text that
\* selects a supported language writes the language into the session data
\* and moves the session to step name; any other message leaves the session
\* row and the users table as they are and is answered with one prompt.
C16_LanguageStepReprompts ==
    [][\A c \in Chats : \A r \in RegAt(c, "lang") : \A m \in Inbound(c) :
            (Delivered(c, m) /\ Webhook(c, m)) =>
                IF m.photo = {} /\ sel_lang(m.text) \in LANGS
                THEN states' = (states \ {r}) \cup
                        {[r EXCEPT !.step = "name",
                                   !.data = [r.data EXCEPT !.lang = sel_lang(m.text)]]}
                ELSE /\ r \in states'
                     /\ users' = users
                     /\ Len(outbox') = 1
                     /\ outbox'[1].to = c
                     /\ outbox'[1].text \in REGISTRATION_PROMPTS
      ]_vars

\* C17: the name step.  When the handler takes a text (no command) from a
\* conversation whose session is at registration step name: a text that is
\* not empty and is no label of the language keyboard is stored as the name
\* and the session moves straight to the contact step (step phone); an
\* empty text or a language label leaves the session as it is and is
\* answered with the name_error prompt.  A registration step is entered
\* only in the order lang, name, phone, and no users row with a phone has
\* an empty name.
C17_NameStep ==
    [][/\ \A c \in Chats : \A r \in RegAt(c, "name") : \A m \in Inbound(c) :
            (/\ m.photo = {} /\ m.contact = {}
             /\ m.text \notin {"/start"} \cup get_all_menu_buttons
             /\ Delivered(c, m)
             /\ Webhook(c, m)) =>
                IF m.text # "" /\ m.text \notin LANGUAGE_LABELS
                THEN states' = (states \ {r}) \cup
                        {[r EXCEPT !.step = "phone",
                                   !.data = [r.data EXCEPT !.name = m.text]]}
                ELSE /\ r \in states'
                     /\ Len(outbox') = 1
                     /\ outbox'[1].text = "name_error"
       /\ \A q \in states' : (q.flow_type = "reg" /\ q \notin states) =>
            \/ q.step = "lang"
            \/ q.step = "name" /\ RegAt(q.chat_id, "lang") # {}
            \/ q.step = "phone" /\ RegAt(q.chat_id, "name") # {}
       /\ \A u \in users' : Truthy(u.phone) => Truthy(u.name)
      ]_vars

\* C18: the appointment record.  A claim that ends in the booking
\* confirmation leaves, in a table that outlives the session, a row that
\* holds the conversation, the claimed slot, and the service and the doctor
\* of the session the claim ended.
C18_AppointmentRecorded ==
    [][\A w \in Workers : (Claims(w) /\ Confirms(outbox')) =>
            \A r \in BookingAt(req[w].chat_id, "slot") :
                \E q \in slots' :
                    /\ q.datetime_str = req[w].full_slot
                    /\ q.booked_by = req[w].chat_id
                    /\ {"service", "doctor"} \subseteq DOMAIN q
                    /\ q.service = r.data.service
                    /\ q.doctor = r.data.doctor
      ]_vars

\* C19: a failure of the admin notification is not fatal.  A claim made
\* while the slot is free books the slot for the claimant, deletes its
\* session, sends the confirmation to the claimant first and the notice to
\* the admin after it, and ends the request, the same whether the send to
\* the admin succeeds or fails; nothing else is sent, and the users table
\* is left alone.
C19_AdminFailureNotFatal ==
    [][\A w \in Workers :
            (/\ Claims(w)
             /\ \E r \in slots : r.datetime_str = req[w].full_slot /\ r.is_booked = 0) =>
                LET c == req[w].chat_id
                IN  /\ \E q \in slots' : /\ q.datetime_str = req[w].full_slot
                                         /\ q.is_booked = 1
                                         /\ q.booked_by = c
                    /\ states' = delete_state(states, c)
                    /\ Len(outbox') = 2
                    /\ outbox'[1] = Msg(c, "booking_done", trans_lang(req[w].lang), "",
                                        main_keyboard(req[w].lang))
                    /\ outbox'[2].to = ADMIN_CHAT_ID
                    /\ outbox'[2].text = "Booking"
                    /\ outbox'[2].arg = req[w].full_slot
                    /\ req'[w] = Idle
                    /\ users' = users
      ]_vars

\* C19, the case: the send to the admin failed; the confirmation went out
\* before it, the slot is booked by the claimant and its session is gone.
C19_AdminSendFailed ==
    /\ Len(outbox) = 2
    /\ outbox[1].text = "booking_done"
    /\ outbox[2].to = ADMIN_CHAT_ID
    /\ ~outbox[2].ok
    /\ StepOf(outbox[1].to) = "none"
    /\ \E q \in slots : /\ q.datetime_str = outbox[2].arg
                        /\ q.is_booked = 1
                        /\ q.booked_by = outbox[1].to

\* C20: the redirect of an unregistered conversation.  When the handler
\* takes any message from a conversation that has no users row and no
\* session of the registration flow, the conversation has, after the step,
\* a session of the registration flow at step lang, and the language prompt
\* is what was sent to it.
C20_UnregisteredRedirect ==
    [][\A c \in Chats : \A m \in Inbound(c) :
            (/\ get_user(users, c) = {}
             /\ ~\E r \in states : r.chat_id = c /\ r.flow_type = "reg"
             /\ Delivered(c, m)
             /\ Webhook(c, m)) =>
                /\ RegAt(c, "lang")' # {}
                /\ outbox' = <<Msg(c, "Select Language", "", "", language_keyboard)>>
      ]_vars

\* The sessions of conversation c at step phone, and the contact cards of
\* its own that it may share there.
AtPhone(c) == {r \in states : r.chat_id = c /\ r.step = "phone"}
OwnCards(c) == {m \in Inbound(c) : \E k \in m.contact : k.user_id = c}

\* What a valid contact-share does besides writing the name: one users row
\* for the conversation, with the phone number of the card and the language
\* of the session; the other rows as they were; the session deleted.
ContactShareCompletes(c, m, r) ==
    /\ Cardinality(get_user(users', c)) = 1
    /\ \A u \in get_user(users', c) :
          /\ \E k \in m.contact : u.phone = k.phone_number
          /\ u.lang = r.data.lang
    /\ \A u \in users : u.chat_id # c => u \in users'
    /\ \A u \in users' : u.chat_id # c => u \in users
    /\ states' = states \ {r}
    /\ StepOf(c)' = "none"

ClaimKeys == {dt_str(d, HOURS[1]) : d \in DayRange}

\* C22: the result of a claim.  On the slots table of every reachable
\* state, for every datetime_str and every conversation: book_slot_atomic
\* returns True exactly when a row with that datetime_str exists and is not
\* booked; it then changes that row alone, to is_booked = 1 with the
\* claimant as booked_by, reminder_sent as it was; when it returns False
\* (the slot is booked, by the claimant or by another, or does not exist)
\* the table is left as it is.
C22_ClaimResult ==
    \A key \in ClaimKeys : \A c \in Chats :
        LET res == book_slot_atomic(slots, key, c)
            free == {r \in slots : r.datetime_str = key /\ r.is_booked = 0}
        IN  /\ res.ok <=> free # {}
            /\ ~res.ok => res.slots = slots
            /\ res.ok =>
                  /\ \A r \in slots \ free : r \in res.slots
                  /\ \A r \in free :
                        [r EXCEPT !.is_booked = 1, !.booked_by = c] \in res.slots
                  /\ Cardinality(res.slots) = Cardinality(slots)

\* C22, the case: the table holds a booked slot and a free one, so that a
\* retry by the holder, a claim by another conversation and a claim of the
\* free slot all occur, besides the claim of a slot that does not exist.
C22_BookedAndFree ==
    /\ \E r \in slots : \E c \in Chats :
          /\ r.is_booked = 1 /\ r.booked_by = c
          /\ r.datetime_str \in ClaimKeys
          /\ ~book_slot_atomic(slots, r.datetime_str, c).ok
    /\ \E q \in slots : q.is_booked = 0 /\ q.datetime_str \in ClaimKeys
    /\ \E key \in ClaimKeys : ~\E r \in slots : r.datetime_str = key

\* A slots row as the columns allow it: 0 or 1 in the flags, a holder
\* exactly when it is booked, and no reminder for a slot that is not booked.
SlotRowOk(r) ==
    /\ r.is_booked \in {0, 1}
    /\ r.reminder_sent \in {0, 1}
    /\ r.booked_by # NoChat <=> r.is_booked = 1
    /\ r.reminder_sent = 1 => r.is_booked = 1

\* C23: the slot record invariant.  Before and after every step, every
\* slots row has a holder exactly when it is booked (and the holder is a
\* conversation), and reminder_sent is set only on a booked row; and
\* reminder_sent is set in a step only if that step handed the reminder of
\* that slot, addressed to its holder, to send_message.
C23_SlotRecordInvariant ==
    [][/\ \A r \in slots \cup slots' : SlotRowOk(r)
       /\ \A r \in slots' : r.is_booked = 1 => r.booked_by \in Chats
       /\ \A r \in slots : \A q \in slots' :
            (q.id = r.id /\ r.reminder_sent = 0 /\ q.reminder_sent = 1) =>
                /\ r.is_booked = 1
                /\ \E i \in DOMAIN outbox' : /\ outbox'[i].text = "reminder_msg"
                                             /\ outbox'[i].to = r.booked_by
                                             /\ outbox'[i].arg = r.datetime_str
      ]_vars

\* C23, the case: a booked slot whose reminder was just handed to
\* send_message and marked as sent.
C23_BookedAndReminded ==
    \E r \in slots :
        /\ r.is_booked = 1
        /\ r.booked_by \in Chats
        /\ r.reminder_sent = 1
        /\ \E i \in DOMAIN outbox : /\ outbox[i].text = "reminder_msg"
                                    /\ outbox[i].arg = r.datetime_str

\* C24: a booking is stable.  In every step, a booked slot either is still
\* in the table, with its id, booked and held by the same conversation, or
\* has no row any more and was dated before yesterday (it was pruned).
C24_BookingStable ==
    [][\A r \in slots : r.is_booked = 1 =>
            \/ \E q \in slots' : /\ q.datetime_str = r.datetime_str
                                 /\ q.id = r.id
                                 /\ q.is_booked = 1
                                 /\ q.booked_by = r.booked_by
            \/ /\ ~\E q \in slots' : q.datetime_str = r.datetime_str \/ q.id = r.id
               /\ StrLess(r.datetime_str, strftime_date(now - 1))
      ]_vars

\* C24, the case: a slot booked days ago, dated before yesterday, still
\* booked by its holder, who has since opened another session.
C24_OldBookingKept ==
    \E r \in slots :
        /\ r.is_booked = 1
        /\ StrLess(r.datetime_str, strftime_date(now - 1))
        /\ StepOf(r.booked_by) # "none"

\* The latest step sent the given text to conversation c.
JustSent(c, text) ==
    \E i \in DOMAIN outbox : outbox[i].to = c /\ outbox[i].text = text

\* C25: one booking session claims at most one slot.  A request that is in
\* flight for a conversation does not end in a booking confirmation right
\* after another event of the same conversation was answered with the
\* cancellation confirmation, or with a booking confirmation of its own,
\* while the request was in flight.
C25_OneClaimPerSession ==
    [][\A w \in Workers :
            (Claims(w) /\ Confirms(outbox')) =>
                /\ ~JustSent(req[w].chat_id, "cancelled")
                /\ ~JustSent(req[w].chat_id, "booking_done")
      ]_vars

====
